---- MODULE Spec2Model ----
(***************************************************************************)
(* VsyncSchedule (services/surfaceflinger/Scheduler/VsyncSchedule.cpp):    *)
(* the hardware-vsync state machine of one schedule, called from several   *)
(* threads.  Every statement of enableHardwareVsync, disableHardwareVsync, *)
(* isHardwareVsyncAllowed and allowHardwareVsync is one step of the        *)
(* calling thread; std::lock_guard on mHwVsyncLock is an acquire step at   *)
(* the top of the function and a release step at its closing brace.        *)
(*                                                                         *)
(* Collaborators are recorded, not modelled: log is the sequence of calls  *)
(* the schedule made on the Tracker (resetModel) and on the                *)
(* ISchedulerCallback (setVsyncEnabled), in the order they were made.      *)
(***************************************************************************)
EXTENDS Integers, Sequences, FiniteSets

\* ---------------------------------------------------------------- bounds
\* Number of caller threads of the concurrent specification.
NumThreads == 2
\* Number of enable/disable/allow calls started in one concurrent run.
MaxOps == 3
\* Number of enable/disable/allow calls started in one run that also has
\* dump calls, Tracker queries or tracer steps.
MaxSideOps == 2
\* The time points of vsyncDeadlineAfter calls are 0..MaxTicks half periods.
MaxTicks == 3
\* Number of enable/disable/allow calls made in one single-threaded run.
MaxSeqOps == 6

\* The mutex is free.
NoThread == 0
Threads == 1..NumThreads
\* The caller of the single-threaded specification.
SeqThread == NoThread + 1
\* The two threads that call into the schedule in the runs with dump.
Callers == {SeqThread, SeqThread + 1}
\* The display ids a schedule may be constructed with.
DisplayIds == {1, 2}

HwVsyncStates == {"Enabled", "Disabled", "Disallowed"}

VARIABLES
    mId,                \* PhysicalDisplayId of the schedule
    mHwVsyncState,      \* GUARDED_BY(mHwVsyncLock)
    mLastHwVsyncState,  \* GUARDED_BY(mHwVsyncLock)
    mHwVsyncLock,       \* the thread holding the mutex, or NoThread
    pc,                 \* pc[t]: the statement thread t executes next
    disallow,           \* disallow[t]: argument of t's disableHardwareVsync
    ret,                \* ret[t]: result of t's last isHardwareVsyncAllowed
    log,                \* calls made on the Tracker and the callback
    trace,              \* enable/disable/allow calls, in lock order
    edges,              \* times mHwVsyncState moved Disabled <-> Enabled
    enters,             \* times mHwVsyncState moved Disabled -> Enabled
    pre,                \* state, last state and Len(log) at lock acquire
    held,               \* last value of mHwVsyncState other than Disallowed
    model,              \* the Tracker's model: period and anchor of its grid
    query,              \* the last vsyncDeadlineAfter call and its result
    out,                \* out[t]: what t's dump has appended so far
    ctor,               \* the constructor called and its feature flags
    mController,        \* how the schedule's Controller was made and set up
    life,               \* where the schedule is in its lifetime
    mTracer,            \* the schedule owns a PredictedVsyncTracer
    mParity,            \* PredictedVsyncTracer::mParity
    registered,         \* callbacks the tracer has registered on the Dispatch
    armed,              \* the Dispatch holds a schedule request for it
    dpc,                \* the statement the Dispatch thread executes next
    requests,           \* schedule requests since the last invocation began
    flips,              \* flips of mParity since the last invocation began
    invoked             \* the Dispatch has invoked the callback

\* The variables no hardware-vsync operation reads or writes.
others == <<query, out, ctor, mController, life, mTracer, mParity, registered,
            armed, dpc, requests, flips, invoked>>

vars == <<mId, mHwVsyncState, mLastHwVsyncState, mHwVsyncLock, pc, disallow,
          ret, log, trace, edges, enters, pre, held, model, others>>

\* ------------------------------------------------------ collaborator calls
ResetModelCall == <<"resetModel">>
SetVsyncEnabledCall(id, enabled) == <<"setVsyncEnabled", id, enabled>>

IsSetVsyncEnabled(c) == c[1] = "setVsyncEnabled"
IsResetModel(c) == c[1] = "resetModel"

RECURSIVE CountCalls(_, _)
\* Number of setVsyncEnabled calls of s that pass `enabled`.
CountCalls(s, enabled) ==
    IF s = <<>> THEN 0
    ELSE (IF IsSetVsyncEnabled(Head(s)) /\ Head(s)[3] = enabled THEN 1 ELSE 0)
         + CountCalls(Tail(s), enabled)

RECURSIVE CountResets(_)
CountResets(s) ==
    IF s = <<>> THEN 0
    ELSE (IF IsResetModel(Head(s)) THEN 1 ELSE 0) + CountResets(Tail(s))

NumCallbacks(s) == CountCalls(s, TRUE) + CountCalls(s, FALSE)

RECURSIVE LastEnabled(_)
\* What the hardware was last told: the value of the most recent
\* setVsyncEnabled call, off before the first one.
LastEnabled(s) ==
    IF s = <<>> THEN FALSE
    ELSE IF IsSetVsyncEnabled(s[Len(s)]) THEN s[Len(s)][3]
    ELSE LastEnabled(SubSeq(s, 1, Len(s) - 1))

\* ------------------------------------------------------------ Vsync Tracker
\* constexpr nsecs_t kInitialPeriod = (60_Hz).getPeriodNsecs();
kInitialPeriod == 16666666

\* The Tracker predicts vsyncs on a grid: anchor + k * period.  A new or reset
\* model has the initial period and no history.
InitialModel == [period |-> kInitialPeriod, anchor |-> 0]

\* VsyncTracker::resetModel(): discards the history.
ResetModel == InitialModel

\* No vsyncDeadlineAfter call was made yet.
NoQuery == <<>>

\* Half an initial period: the unit of the time points and anchors used.
Tick == kInitialPeriod \div 2

\* TimePoint::fromNs and TimePoint::ns: a TimePoint wraps a count of ns.
FromNs(n) == [ns |-> n]
Ns(tp) == tp.ns

\* The arguments of the vsyncDeadlineAfter calls.
TimePoints == {FromNs(k * Tick) : k \in 0..MaxTicks}

\* The models the Controller's feedback can bring the Tracker to: the panel
\* runs at the initial rate, or at half of it and then in phase or not.
Models ==
    {m \in [period : {kInitialPeriod, kInitialPeriod + kInitialPeriod},
            anchor : {0, Tick}] :
        m.period = kInitialPeriod => m.anchor = 0}

\* VsyncTracker::nextAnticipatedVSyncTimeFrom(ns): the first instant of the
\* grid strictly after ns.
NextAnticipatedVSyncTimeFrom(m, ns) ==
    m.anchor + (((ns - m.anchor) \div m.period) + 1) * m.period

\* Mutant: the function returns the time left until the deadline.
VsyncDeadlineAfter_Duration(m, timePoint) ==
    FromNs(NextAnticipatedVSyncTimeFrom(m, Ns(timePoint)) - Ns(timePoint))

\* return TimePoint::fromNs(
\*     mTracker->nextAnticipatedVSyncTimeFrom(timePoint.ns()));
VsyncDeadlineAfter(m, timePoint) ==
    FromNs(NextAnticipatedVSyncTimeFrom(m, Ns(timePoint)))

\* ------------------------------------------------------------ construction
\* Member initialisers of the class declaration.
InitialHwVsyncState == "Disabled"
InitialLastHwVsyncState == "Disabled"

NewSchedule ==
    /\ mId \in DisplayIds
    /\ mHwVsyncState = InitialHwVsyncState
    /\ mLastHwVsyncState = InitialLastHwVsyncState
    /\ mHwVsyncLock = NoThread
    /\ pc = [t \in Threads |-> "idle"]
    /\ disallow = [t \in Threads |-> FALSE]
    /\ ret = [t \in Threads |-> "none"]
    /\ log = <<>>
    /\ trace = <<>>
    /\ edges = 0
    /\ enters = 0
    /\ pre = [state |-> InitialHwVsyncState, last |-> InitialLastHwVsyncState,
              len |-> 0]
    /\ held = InitialHwVsyncState
    /\ model = InitialModel
    /\ query = NoQuery
    /\ out = [t \in Threads |-> <<>>]
    /\ mTracer = FALSE
    /\ mParity = FALSE
    /\ registered = 0
    /\ armed = FALSE
    /\ dpc = "idle"
    /\ requests = <<>>
    /\ flips = 0
    /\ invoked = FALSE

\* The flags of FeatureFlags the constructor tests.
Features == {"kTracePredictedVsync", "kKernelIdleTimer", "kPresentFences"}

\* constexpr size_t kMaxPendingFences = 20;
kMaxPendingFences == 20

\* No Controller yet: the initialiser of mController has not run.
NoController == [made |-> "none"]

\* A Controller built outside and passed to the constructor.
InjectedController == [made |-> "injected"]

\* createController(id, *mTracker, features): a VSyncReactor for the display
\* with kMaxPendingFences and the kernel idle timer flag, then
\* setIgnorePresentFences(!features.test(Feature::kPresentFences)).
CreatedController(id, features) ==
    [made |-> "createController",
     id |-> id,
     maxPendingFences |-> kMaxPendingFences,
     hasKernelIdleTimer |-> "kKernelIdleTimer" \in features,
     ignorePresentFences |-> ~("kPresentFences" \in features)]

\* The constructor calls: (id, features), and (id, tracker, dispatch,
\* controller), which takes no flags.
Ctors ==
    {[kind |-> "features", features |-> f] : f \in SUBSET Features}
        \cup {[kind |-> "injected", features |-> {}]}

\* A schedule constructed with no flag set, ready for calls.
Init ==
    /\ NewSchedule
    /\ ctor = [kind |-> "features", features |-> {}]
    /\ mController = CreatedController(mId, ctor.features)
    /\ life = "alive"

\* A schedule under construction: the initialisers of mId, mTracker and
\* mDispatch have run and that of mController is about to.
TracerInit ==
    /\ NewSchedule
    /\ ctor \in Ctors
    /\ mController = NoController
    /\ life = "init_controller"

\* ------------------------------------------------------------------ helpers
\* enable/disable/allow calls started so far: those that took the lock plus
\* those waiting for it.
Waiting == {t \in Threads : pc[t] \in {"en_lock", "dis_lock", "al_lock"}}
Started == Len(trace) + Cardinality(Waiting)

\* A caller starts a call: control reaches the lock_guard of the function.
Call(t, label) ==
    /\ life = "alive"
    /\ pc[t] = "idle"
    /\ pc' = [pc EXCEPT ![t] = label]
    /\ ret' = [ret EXCEPT ![t] = "none"]

\* Mutant: the function enters without waiting for the mutex.
Lock_NoWait(t, from, to) ==
    /\ pc[t] = from
    /\ mHwVsyncLock' = t
    /\ pc' = [pc EXCEPT ![t] = to]
    /\ pre' = [state |-> mHwVsyncState, last |-> mLastHwVsyncState,
               len |-> Len(log)]

\* std::lock_guard<std::mutex> lock(mHwVsyncLock): blocks while it is held.
Lock(t, from, to) ==
    /\ pc[t] = from
    /\ mHwVsyncLock = NoThread
    /\ mHwVsyncLock' = t
    /\ pc' = [pc EXCEPT ![t] = to]
    /\ pre' = [state |-> mHwVsyncState, last |-> mLastHwVsyncState,
               len |-> Len(log)]

\* Mutant: the call returns with the mutex still locked.
Unlock_Leaks(t, from) ==
    /\ pc[t] = from
    /\ mHwVsyncLock' = mHwVsyncLock
    /\ pc' = [pc EXCEPT ![t] = "idle"]

\* The closing brace of the function: the guard releases the mutex and the
\* call returns.
Unlock(t, from) ==
    /\ pc[t] = from
    /\ mHwVsyncLock' = NoThread
    /\ pc' = [pc EXCEPT ![t] = "idle"]

Goto(t, from, to) ==
    /\ pc[t] = from
    /\ pc' = [pc EXCEPT ![t] = to]

\* The Disabled <-> Enabled edges an assignment of mHwVsyncState crosses.
Edge(old, new) ==
    IF {old, new} = {"Disabled", "Enabled"} THEN 1 ELSE 0

\* The last value other than Disallowed that mHwVsyncState held, after an
\* assignment of `new`.
Held(new) == IF new = "Disallowed" THEN held ELSE new

\* 1 when an assignment of mHwVsyncState moves it Disabled -> Enabled.
Enter(old, new) ==
    IF old = "Disabled" /\ new = "Enabled" THEN 1 ELSE 0

\* --------------------------------------------------- enableHardwareVsync
EnableCall(t, budget) ==
    /\ Started < budget
    /\ Call(t, "en_lock")
    /\ UNCHANGED <<others, model, held, mId, mHwVsyncState,
                   mLastHwVsyncState, mHwVsyncLock, disallow, log, trace,
                   edges, enters, pre>>

EnableLock(t) ==
    /\ Lock(t, "en_lock", "en_check")
    /\ trace' = Append(trace, <<"enable">>)
    /\ UNCHANGED <<others, model, held, mId, mHwVsyncState,
                   mLastHwVsyncState, disallow, ret, log, edges, enters>>

\* Mutants of the guard: it lets an Enabled schedule through, or a
\* Disallowed one.
EnableGuard_NotDisallowed == mHwVsyncState # "Disallowed"
EnableGuard_NotEnabled == mHwVsyncState # "Enabled"

\* if (mHwVsyncState == HwVsyncState::Disabled)
EnableGuard == mHwVsyncState = "Disabled"

EnableCheck(t) ==
    /\ Goto(t, "en_check", IF EnableGuard THEN "en_reset" ELSE "en_unlock")
    /\ UNCHANGED <<others, model, held, mId, mHwVsyncState,
                   mLastHwVsyncState, mHwVsyncLock, disallow, ret, log,
                   trace, edges, enters, pre>>

\* Mutant: the transition does not reset the Tracker.
EnableReset_Skipped(t) ==
    /\ Goto(t, "en_reset", "en_cb")
    /\ UNCHANGED <<others, model, held, mId, mHwVsyncState,
                   mLastHwVsyncState, mHwVsyncLock, disallow, ret, log,
                   trace, edges, enters, pre>>

\* getTracker().resetModel();
EnableReset(t) ==
    /\ Goto(t, "en_reset", "en_cb")
    /\ log' = Append(log, ResetModelCall)
    /\ model' = ResetModel
    /\ UNCHANGED <<others, held, mId, mHwVsyncState, mLastHwVsyncState,
                   mHwVsyncLock, disallow, ret, trace, edges, enters, pre>>

\* callback.setVsyncEnabled(mId, true);
EnableCallback(t) ==
    /\ Goto(t, "en_cb", "en_set")
    /\ log' = Append(log, SetVsyncEnabledCall(mId, TRUE))
    /\ UNCHANGED <<others, model, held, mId, mHwVsyncState,
                   mLastHwVsyncState, mHwVsyncLock, disallow, ret, trace,
                   edges, enters, pre>>

\* mHwVsyncState = HwVsyncState::Enabled;
EnableSetState(t) ==
    /\ Goto(t, "en_set", "en_last")
    /\ mHwVsyncState' = "Enabled"
    /\ edges' = edges + Edge(mHwVsyncState, "Enabled")
    /\ enters' = enters + Enter(mHwVsyncState, "Enabled")
    /\ held' = Held("Enabled")
    /\ UNCHANGED <<others, model, mId, mLastHwVsyncState, mHwVsyncLock,
                   disallow, ret, log, trace, pre>>

\* mLastHwVsyncState = HwVsyncState::Enabled;
EnableSetLast(t) ==
    /\ Goto(t, "en_last", "en_unlock")
    /\ mLastHwVsyncState' = "Enabled"
    /\ UNCHANGED <<others, model, held, mId, mHwVsyncState, mHwVsyncLock,
                   disallow, ret, log, trace, edges, enters, pre>>

EnableUnlock(t) ==
    /\ Unlock(t, "en_unlock")
    /\ UNCHANGED <<others, model, held, mId, mHwVsyncState,
                   mLastHwVsyncState, disallow, ret, log, trace, edges,
                   enters, pre>>

\* -------------------------------------------------- disableHardwareVsync
DisableCall(t, d, budget) ==
    /\ Started < budget
    /\ Call(t, "dis_lock")
    /\ disallow' = [disallow EXCEPT ![t] = d]
    /\ UNCHANGED <<others, model, held, mId, mHwVsyncState,
                   mLastHwVsyncState, mHwVsyncLock, log, trace, edges,
                   enters, pre>>

DisableLock(t) ==
    /\ Lock(t, "dis_lock", "dis_check")
    /\ trace' = Append(trace, <<"disable", disallow[t]>>)
    /\ UNCHANGED <<others, model, held, mId, mHwVsyncState,
                   mLastHwVsyncState, disallow, ret, log, edges, enters>>

\* Mutants of the guard: it also switches off a Disabled schedule, or every
\* schedule.
DisableGuard_NotDisallowed == mHwVsyncState # "Disallowed"
DisableGuard_Always == TRUE

\* if (mHwVsyncState == HwVsyncState::Enabled)
DisableGuard == mHwVsyncState = "Enabled"

DisableCheck(t) ==
    /\ Goto(t, "dis_check", IF DisableGuard THEN "dis_cb" ELSE "dis_set")
    /\ UNCHANGED <<others, model, held, mId, mHwVsyncState,
                   mLastHwVsyncState, mHwVsyncLock, disallow, ret, log,
                   trace, edges, enters, pre>>

\* Mutant: the switch-off passes true.
DisableCallback_PassesTrue(t) ==
    /\ Goto(t, "dis_cb", "dis_last")
    /\ log' = Append(log, SetVsyncEnabledCall(mId, TRUE))
    /\ UNCHANGED <<others, model, held, mId, mHwVsyncState,
                   mLastHwVsyncState, mHwVsyncLock, disallow, ret, trace,
                   edges, enters, pre>>

\* Mutant: switching the hardware vsync off cancels the tracer's request.
DisableCallback_CancelsTracer(t) ==
    /\ Goto(t, "dis_cb", "dis_last")
    /\ log' = Append(log, SetVsyncEnabledCall(mId, FALSE))
    /\ armed' = FALSE
    /\ UNCHANGED <<query, out, ctor, mController, life, mTracer, mParity,
                   registered, dpc, requests, flips, invoked, model, held,
                   mId, mHwVsyncState,
                   mLastHwVsyncState, mHwVsyncLock, disallow, ret, trace,
                   edges, enters, pre>>

\* callback.setVsyncEnabled(mId, false);
DisableCallback(t) ==
    /\ Goto(t, "dis_cb", "dis_last")
    /\ log' = Append(log, SetVsyncEnabledCall(mId, FALSE))
    /\ UNCHANGED <<others, model, held, mId, mHwVsyncState,
                   mLastHwVsyncState, mHwVsyncLock, disallow, ret, trace,
                   edges, enters, pre>>

\* mLastHwVsyncState = HwVsyncState::Disabled;
DisableSetLast(t) ==
    /\ Goto(t, "dis_last", "dis_set")
    /\ mLastHwVsyncState' = "Disabled"
    /\ UNCHANGED <<others, model, held, mId, mHwVsyncState, mHwVsyncLock,
                   disallow, ret, log, trace, edges, enters, pre>>

\* Mutant: a Disallowed schedule stays Disallowed.
DisableNewState_KeepDisallowed(d) ==
    IF mHwVsyncState = "Disallowed" \/ d THEN "Disallowed" ELSE "Disabled"

\* disallow ? HwVsyncState::Disallowed : HwVsyncState::Disabled
DisableNewState(d) == IF d THEN "Disallowed" ELSE "Disabled"

\* mHwVsyncState = disallow ? ... : ...;   (outside the if: in every state)
DisableSetState(t) ==
    /\ Goto(t, "dis_set", "dis_unlock")
    /\ mHwVsyncState' = DisableNewState(disallow[t])
    /\ edges' = edges + Edge(mHwVsyncState, DisableNewState(disallow[t]))
    /\ enters' = enters + Enter(mHwVsyncState, DisableNewState(disallow[t]))
    /\ held' = Held(DisableNewState(disallow[t]))
    /\ UNCHANGED <<others, model, mId, mLastHwVsyncState, mHwVsyncLock,
                   disallow, ret, log, trace, pre>>

DisableUnlock(t) ==
    /\ Unlock(t, "dis_unlock")
    /\ UNCHANGED <<others, model, held, mId, mHwVsyncState,
                   mLastHwVsyncState, disallow, ret, log, trace, edges,
                   enters, pre>>

\* ------------------------------------------------ isHardwareVsyncAllowed
IsAllowedCall(t) ==
    /\ Call(t, "ia_lock")
    /\ UNCHANGED <<others, model, held, mId, mHwVsyncState,
                   mLastHwVsyncState, mHwVsyncLock, disallow, log, trace,
                   edges, enters, pre>>

IsAllowedLock(t) ==
    /\ Lock(t, "ia_lock", "ia_read")
    /\ UNCHANGED <<others, model, held, mId, mHwVsyncState,
                   mLastHwVsyncState, disallow, ret, log, trace, edges,
                   enters>>

\* The value a returned call leaves in ret.
Returned(b) == IF b THEN "true" ELSE "false"

\* Mutant: only an Enabled schedule counts as allowed.
IsAllowedResult_OnlyEnabled == mHwVsyncState = "Enabled"

\* return mHwVsyncState != HwVsyncState::Disallowed;
IsAllowedResult == mHwVsyncState # "Disallowed"

IsAllowedRead(t) ==
    /\ Goto(t, "ia_read", "ia_unlock")
    /\ ret' = [ret EXCEPT ![t] = Returned(IsAllowedResult)]
    /\ UNCHANGED <<others, model, held, mId, mHwVsyncState,
                   mLastHwVsyncState, mHwVsyncLock, disallow, log, trace,
                   edges, enters, pre>>

IsAllowedUnlock(t) ==
    /\ Unlock(t, "ia_unlock")
    /\ UNCHANGED <<others, model, held, mId, mHwVsyncState,
                   mLastHwVsyncState, disallow, ret, log, trace, edges,
                   enters, pre>>

\* ---------------------------------------------------- allowHardwareVsync
AllowCall(t, budget) ==
    /\ Started < budget
    /\ Call(t, "al_lock")
    /\ UNCHANGED <<others, model, held, mId, mHwVsyncState,
                   mLastHwVsyncState, mHwVsyncLock, disallow, log, trace,
                   edges, enters, pre>>

AllowLock(t) ==
    /\ Lock(t, "al_lock", "al_check")
    /\ trace' = Append(trace, <<"allow">>)
    /\ UNCHANGED <<others, model, held, mId, mHwVsyncState,
                   mLastHwVsyncState, disallow, ret, log, edges, enters>>

\* if (mHwVsyncState == HwVsyncState::Disallowed)
AllowGuard == mHwVsyncState = "Disallowed"

AllowCheck(t) ==
    /\ Goto(t, "al_check", IF AllowGuard THEN "al_set" ELSE "al_unlock")
    /\ UNCHANGED <<others, model, held, mId, mHwVsyncState,
                   mLastHwVsyncState, mHwVsyncLock, disallow, ret, log,
                   trace, edges, enters, pre>>

\* Mutant: allowing switches the state to Enabled.
AllowNewState_Enabled == "Enabled"

\* mHwVsyncState = HwVsyncState::Disabled;
AllowNewState == "Disabled"

AllowSetState(t) ==
    /\ Goto(t, "al_set", "al_unlock")
    /\ mHwVsyncState' = AllowNewState
    /\ edges' = edges + Edge(mHwVsyncState, AllowNewState)
    /\ enters' = enters + Enter(mHwVsyncState, AllowNewState)
    /\ held' = Held(AllowNewState)
    /\ UNCHANGED <<others, model, mId, mLastHwVsyncState, mHwVsyncLock,
                   disallow, ret, log, trace, pre>>

AllowUnlock(t) ==
    /\ Unlock(t, "al_unlock")
    /\ UNCHANGED <<others, model, held, mId, mHwVsyncState,
                   mLastHwVsyncState, disallow, ret, log, trace, edges,
                   enters, pre>>

\* ------------------------------------------------------- vsyncDeadlineAfter
\* The variables of the hardware-vsync state machine.
hwVars == <<mId, mHwVsyncState, mLastHwVsyncState, mHwVsyncLock, pc,
            disallow, ret, log, trace, edges, enters, pre, held>>

\* The variables of the tracer and of the schedule's lifetime.
tracerVars == <<ctor, life, mTracer, mParity, registered, armed, dpc,
                requests, flips, invoked>>

\* A call vsyncDeadlineAfter(timePoint) on any thread: it takes no lock of
\* the schedule.  query keeps the call next to one of the calls made before.
VsyncDeadlineAfterCall(timePoint) ==
    /\ life = "alive"
    /\ LET call == [t |-> timePoint,
                    result |-> VsyncDeadlineAfter(model, timePoint),
                    model |-> model]
       IN  \/ query = NoQuery /\ query' = <<call>>
           \/ \E i \in 1..Len(query) : query' = <<query[i], call>>
    /\ UNCHANGED <<hwVars, model, out, mController, tracerVars>>

\* The Controller feeds hardware pulses and present fences to the Tracker,
\* which moves its model.
ControllerFeedback(m) ==
    /\ life = "alive"
    /\ model # m
    /\ model' = m
    /\ UNCHANGED <<hwVars, query, out, mController, tracerVars>>

\* --------------------------------------------------------------------- dump
\* The variables dump leaves alone, besides out, pc, ret and the lock.
dumpFrame == <<mId, mHwVsyncState, mLastHwVsyncState, disallow, log, trace,
               edges, enters, held, model, query, ctor, mController, life,
               mTracer, mParity, registered, armed, dpc, requests, flips,
               invoked>>

\* utils::Dumper dumper(out);
DumpCall(t) ==
    /\ Call(t, "dump_lock")
    /\ out' = [out EXCEPT ![t] = <<>>]
    /\ UNCHANGED <<dumpFrame, mHwVsyncLock, pre>>

\* { std::lock_guard<std::mutex> lock(mHwVsyncLock);
DumpLock(t) ==
    /\ Lock(t, "dump_lock", "dump_state")
    /\ UNCHANGED <<dumpFrame, out, ret>>

\* dumper.dump("hwVsyncState", ftl::enum_string(mHwVsyncState));
DumpState(t) ==
    /\ Goto(t, "dump_state", "dump_last")
    /\ out' = [out EXCEPT ![t] = Append(@, <<"hwVsyncState", mHwVsyncState>>)]
    /\ UNCHANGED <<dumpFrame, mHwVsyncLock, ret, pre>>

\* dumper.dump("lastHwVsyncState", ftl::enum_string(mLastHwVsyncState));
DumpLast(t) ==
    /\ Goto(t, "dump_last", "dump_unlock")
    /\ out' = [out EXCEPT
                  ![t] = Append(@, <<"lastHwVsyncState", mLastHwVsyncState>>)]
    /\ UNCHANGED <<dumpFrame, mHwVsyncLock, ret, pre>>

\* Mutant: the scope of the guard is the whole function, so the mutex stays
\* locked over the collaborators' dumps.
DumpUnlock_KeepsLock(t) ==
    /\ Goto(t, "dump_unlock", "dump_controller")
    /\ UNCHANGED <<dumpFrame, mHwVsyncLock, out, ret, pre>>

\* }   (the inner scope ends: the guard releases the mutex)
DumpUnlock(t) ==
    /\ Goto(t, "dump_unlock", "dump_controller")
    /\ mHwVsyncLock' = NoThread
    /\ UNCHANGED <<dumpFrame, out, ret, pre>>

\* out.append("VsyncController:\n"); mController->dump(out);
DumpController(t) ==
    /\ Goto(t, "dump_controller", "dump_dispatch")
    /\ out' = [out EXCEPT ![t] = Append(@, <<"VsyncController">>)]
    /\ UNCHANGED <<dumpFrame, mHwVsyncLock, ret, pre>>

\* out.append("VsyncDispatch:\n"); mDispatch->dump(out);
DumpDispatch(t) ==
    /\ Goto(t, "dump_dispatch", "dump_return")
    /\ out' = [out EXCEPT ![t] = Append(@, <<"VsyncDispatch">>)]
    /\ UNCHANGED <<dumpFrame, mHwVsyncLock, ret, pre>>

\* }   (dump returns; the caller takes the string)
DumpReturn(t) ==
    /\ Goto(t, "dump_return", "idle")
    /\ out' = [out EXCEPT ![t] = <<>>]
    /\ UNCHANGED <<dumpFrame, mHwVsyncLock, ret, pre>>

\* ------------------------------------------------- PredictedVsyncTracer
\* The variables no step of the constructor, the tracer or the destructor
\* reads or writes.
scheduleVars == <<hwVars, model, query, out, mController>>

\* mRegistration.schedule({0, 0, 0})
ZeroOffsets == <<0, 0, 0>>

\* mController(createController(id, *mTracker, features))
CreateController ==
    /\ life = "init_controller"
    /\ ctor.kind = "features"
    /\ mController' = CreatedController(mId, ctor.features)
    /\ life' = "ctor"
    /\ UNCHANGED <<hwVars, model, query, out, ctor, mTracer, mParity,
                   registered, armed, dpc, requests, flips, invoked>>

\* mController(std::move(controller))
InjectController ==
    /\ life = "init_controller"
    /\ ctor.kind = "injected"
    /\ mController' = InjectedController
    /\ life' = "ctor"
    /\ UNCHANGED <<hwVars, model, query, out, ctor, mTracer, mParity,
                   registered, armed, dpc, requests, flips, invoked>>

\* Mutant: the constructor creates the tracer whatever the flags.
CtorTest_Always ==
    /\ life = "ctor"
    /\ ctor.kind = "features"
    /\ life' = "tracer_register"
    /\ UNCHANGED <<scheduleVars, ctor, mTracer, mParity, registered, armed,
                   dpc, requests, flips, invoked>>

\* if (features.test(Feature::kTracePredictedVsync)) {
CtorTest ==
    /\ life = "ctor"
    /\ ctor.kind = "features"
    /\ life' = IF "kTracePredictedVsync" \in ctor.features
               THEN "tracer_register"
               ELSE "alive"
    /\ UNCHANGED <<scheduleVars, ctor, mTracer, mParity, registered, armed,
                   dpc, requests, flips, invoked>>

\* The body of the constructor that takes the three collaborators: {}
CtorInjected ==
    /\ life = "ctor"
    /\ ctor.kind = "injected"
    /\ life' = "alive"
    /\ UNCHANGED <<scheduleVars, ctor, mTracer, mParity, registered, armed,
                   dpc, requests, flips, invoked>>

\* : mRegistration(std::move(dispatch), makeVsyncCallback(), __func__)
\* after mParity = {"VSYNC-predicted", 0}
TracerRegister ==
    /\ life = "tracer_register"
    /\ mParity' = FALSE
    /\ registered' = registered + 1
    /\ life' = "tracer_schedule"
    /\ UNCHANGED <<scheduleVars, ctor, mTracer, armed, dpc, requests, flips,
                   invoked>>

\* { schedule(); }   (the body of the tracer's constructor)
TracerSchedule ==
    /\ life = "tracer_schedule"
    /\ requests' = Append(requests, ZeroOffsets)
    /\ armed' = (registered > 0)
    /\ life' = "tracer_made"
    /\ UNCHANGED <<scheduleVars, ctor, mTracer, mParity, registered, dpc,
                   flips, invoked>>

\* mTracer = std::make_unique<PredictedVsyncTracer>(mDispatch); }
CtorAssign ==
    /\ life = "tracer_made"
    /\ mTracer' = TRUE
    /\ life' = "alive"
    /\ UNCHANGED <<scheduleVars, ctor, mParity, registered, armed, dpc,
                   requests, flips, invoked>>

\* The Dispatch's thread takes the armed request of a registered callback and
\* invokes the callback.
DispatchFire ==
    /\ dpc = "idle"
    /\ registered > 0
    /\ armed
    /\ armed' = FALSE
    /\ dpc' = "cb_flip"
    /\ invoked' = TRUE
    /\ flips' = 0
    /\ requests' = <<>>
    /\ UNCHANGED <<scheduleVars, ctor, life, mTracer, mParity, registered>>

\* Mutant: the callback leaves mParity alone.
CallbackFlip_Skipped ==
    /\ dpc = "cb_flip"
    /\ dpc' = "cb_schedule"
    /\ UNCHANGED <<scheduleVars, ctor, life, mTracer, mParity, registered,
                   armed, requests, flips, invoked>>

\* mParity = !mParity;
CallbackFlip ==
    /\ dpc = "cb_flip"
    /\ mParity' = ~mParity
    /\ flips' = flips + 1
    /\ dpc' = "cb_schedule"
    /\ UNCHANGED <<scheduleVars, ctor, life, mTracer, registered, armed,
                   requests, invoked>>

\* schedule(); }   The Dispatch arms the request if the callback is still
\* registered, and the callback returns.
CallbackSchedule ==
    /\ dpc = "cb_schedule"
    /\ requests' = Append(requests, ZeroOffsets)
    /\ armed' = (registered > 0)
    /\ dpc' = "idle"
    /\ UNCHANGED <<scheduleVars, ctor, life, mTracer, mParity, registered,
                   flips, invoked>>

\* ------------------------------------------------------------ destruction
\* The owner destroys the schedule; no call on it is in progress.
Destroy ==
    /\ life = "alive"
    /\ \A t \in Threads : pc[t] = "idle"
    /\ life' = "dtor_tracer"
    /\ UNCHANGED <<scheduleVars, ctor, mTracer, mParity, registered, armed,
                   dpc, requests, flips, invoked>>

\* ~mTracer: the tracer's registration unregisters its callback, which
\* cancels the armed request.
DtorUnregister ==
    /\ life = "dtor_tracer"
    /\ registered' = 0
    /\ armed' = FALSE
    /\ life' = "dtor_tracer_wait"
    /\ UNCHANGED <<scheduleVars, ctor, mTracer, mParity, dpc, requests, flips,
                   invoked>>

\* Mutant: unregistering does not wait for a running callback.
DtorTracer_NoWait ==
    /\ life = "dtor_tracer_wait"
    /\ mTracer' = FALSE
    /\ life' = "dtor_controller"
    /\ UNCHANGED <<scheduleVars, ctor, mParity, registered, armed, dpc,
                   requests, flips, invoked>>

\* Unregistering returns once the callback is not running; the tracer is gone.
DtorTracer ==
    /\ life = "dtor_tracer_wait"
    /\ dpc = "idle"
    /\ mTracer' = FALSE
    /\ life' = "dtor_controller"
    /\ UNCHANGED <<scheduleVars, ctor, mParity, registered, armed, dpc,
                   requests, flips, invoked>>

\* ~mController, ~mDispatch, ~mTracker, one after the other.
DtorCollaborator(from, to) ==
    /\ life = from
    /\ life' = to
    /\ UNCHANGED <<scheduleVars, ctor, mTracer, mParity, registered, armed,
                   dpc, requests, flips, invoked>>

DtorController == DtorCollaborator("dtor_controller", "dtor_dispatch")
DtorDispatch == DtorCollaborator("dtor_dispatch", "dtor_tracker")
DtorTracker == DtorCollaborator("dtor_tracker", "dead")

\* What the destructor has released so far.
ControllerReleased == life \in {"dtor_dispatch", "dtor_tracker", "dead"}
DispatchReleased == life \in {"dtor_tracker", "dead"}
TrackerReleased == life = "dead"
TracerDestroyed ==
    life \in {"dtor_controller", "dtor_dispatch", "dtor_tracker", "dead"}

\* ----------------------------------------------------------- specifications
\* Several threads call into one schedule.
Next ==
    \E t \in Threads :
        \/ EnableCall(t, MaxOps)
        \/ EnableLock(t)
        \/ EnableCheck(t)
        \/ EnableReset(t)
        \/ EnableCallback(t)
        \/ EnableSetState(t)
        \/ EnableSetLast(t)
        \/ EnableUnlock(t)
        \/ \E d \in BOOLEAN : DisableCall(t, d, MaxOps)
        \/ DisableLock(t)
        \/ DisableCheck(t)
        \/ DisableCallback(t)
        \/ DisableSetLast(t)
        \/ DisableSetState(t)
        \/ DisableUnlock(t)
        \/ IsAllowedCall(t)
        \/ IsAllowedLock(t)
        \/ IsAllowedRead(t)
        \/ IsAllowedUnlock(t)
        \/ AllowCall(t, MaxOps)
        \/ AllowLock(t)
        \/ AllowCheck(t)
        \/ AllowSetState(t)
        \/ AllowUnlock(t)

Spec == Init /\ [][Next]_vars

\* One thread calls into the schedule, each call returning before the next.
SeqNext ==
    \/ EnableCall(SeqThread, MaxSeqOps)
    \/ EnableLock(SeqThread)
    \/ EnableCheck(SeqThread)
    \/ EnableReset(SeqThread)
    \/ EnableCallback(SeqThread)
    \/ EnableSetState(SeqThread)
    \/ EnableSetLast(SeqThread)
    \/ EnableUnlock(SeqThread)
    \/ \E d \in BOOLEAN : DisableCall(SeqThread, d, MaxSeqOps)
    \/ DisableLock(SeqThread)
    \/ DisableCheck(SeqThread)
    \/ DisableCallback(SeqThread)
    \/ DisableSetLast(SeqThread)
    \/ DisableSetState(SeqThread)
    \/ DisableUnlock(SeqThread)
    \/ IsAllowedCall(SeqThread)
    \/ IsAllowedLock(SeqThread)
    \/ IsAllowedRead(SeqThread)
    \/ IsAllowedUnlock(SeqThread)
    \/ AllowCall(SeqThread, MaxSeqOps)
    \/ AllowLock(SeqThread)
    \/ AllowCheck(SeqThread)
    \/ AllowSetState(SeqThread)
    \/ AllowUnlock(SeqThread)

SeqSpec == Init /\ [][SeqNext]_vars


\* A step of thread t that takes the mutex.
Acquire(t) ==
    \/ EnableLock(t)
    \/ DisableLock(t)
    \/ IsAllowedLock(t)
    \/ AllowLock(t)
    \/ DumpLock(t)

\* A step of thread t inside a call, other than taking the mutex.
Proceed(t) ==
    \/ EnableCheck(t)
    \/ EnableReset(t)
    \/ EnableCallback(t)
    \/ EnableSetState(t)
    \/ EnableSetLast(t)
    \/ EnableUnlock(t)
    \/ DisableCheck(t)
    \/ DisableCallback(t)
    \/ DisableSetLast(t)
    \/ DisableSetState(t)
    \/ DisableUnlock(t)
    \/ IsAllowedRead(t)
    \/ IsAllowedUnlock(t)
    \/ AllowCheck(t)
    \/ AllowSetState(t)
    \/ AllowUnlock(t)
    \/ DumpState(t)
    \/ DumpLast(t)
    \/ DumpUnlock(t)
    \/ DumpController(t)
    \/ DumpDispatch(t)
    \/ DumpReturn(t)

\* Thread t starts an enable, disable or allow call.
HwCall(t, budget) ==
    \/ EnableCall(t, budget)
    \/ \E d \in BOOLEAN : DisableCall(t, d, budget)
    \/ AllowCall(t, budget)

\* Thread t takes a step inside an enable, disable or allow call.
HwStep(t) ==
    \/ EnableLock(t)
    \/ EnableCheck(t)
    \/ EnableReset(t)
    \/ EnableCallback(t)
    \/ EnableSetState(t)
    \/ EnableSetLast(t)
    \/ EnableUnlock(t)
    \/ DisableLock(t)
    \/ DisableCheck(t)
    \/ DisableCallback(t)
    \/ DisableSetLast(t)
    \/ DisableSetState(t)
    \/ DisableUnlock(t)
    \/ AllowLock(t)
    \/ AllowCheck(t)
    \/ AllowSetState(t)
    \/ AllowUnlock(t)

\* One thread drives the state machine while the Controller corrects the
\* Tracker and vsyncDeadlineAfter is called.
TrackerNext ==
    \/ HwCall(SeqThread, MaxSideOps)
    \/ HwStep(SeqThread)
    \/ \E m \in Models : ControllerFeedback(m)
    \/ \E tp \in TimePoints : VsyncDeadlineAfterCall(tp)

TrackerSpec == Init /\ [][TrackerNext]_vars

\* A step of the constructor's body.
Construct ==
    \/ CreateController
    \/ InjectController
    \/ CtorTest
    \/ CtorInjected
    \/ TracerRegister
    \/ TracerSchedule
    \/ CtorAssign

\* A step of the Dispatch's thread.
Dispatch ==
    \/ DispatchFire
    \/ CallbackFlip
    \/ CallbackSchedule

\* A step of the destructor.
Destruct ==
    \/ DtorUnregister
    \/ DtorTracer
    \/ DtorController
    \/ DtorDispatch
    \/ DtorTracker

\* A schedule from its constructor's body to the end of its destructor, with
\* the Dispatch's thread and one thread driving the state machine.
TracerNext ==
    \/ Construct
    \/ Dispatch
    \/ HwCall(SeqThread, MaxSideOps)
    \/ HwStep(SeqThread)
    \/ Destroy
    \/ Destruct

TracerSpec == TracerInit /\ [][TracerNext]_vars

\* The constructor and the destructor go on, and the Dispatch fires every
\* armed request and runs the callback to its end.
FairTracerSpec ==
    /\ TracerSpec
    /\ WF_vars(Construct)
    /\ WF_vars(Dispatch)
    /\ WF_vars(Destruct)

\* Several threads call into one schedule, dump included.
DumpNext ==
    \E t \in Callers :
        \/ EnableCall(t, MaxSideOps)
        \/ \E d \in BOOLEAN : DisableCall(t, d, MaxSideOps)
        \/ AllowCall(t, MaxSideOps)
        \/ IsAllowedCall(t)
        \/ DumpCall(t)
        \/ Acquire(t)
        \/ Proceed(t)

DumpSpec == Init /\ [][DumpNext]_vars

\* Fair scheduling: a thread that can go on inside a call does, the
\* collaborators return, and a thread waiting for a mutex that stays free
\* takes it.  std::mutex promises no more: a waiting thread may lose the
\* mutex to the other threads every time it is free.
Fairness ==
    \A t \in Callers : WF_vars(Proceed(t)) /\ WF_vars(Acquire(t))

FairDumpSpec == DumpSpec /\ Fairness

\* ------------------------------------------------- the calls, one at a time
\* What one whole call does to the schedule and the collaborators when
\* nothing runs beside it: s is the state, the last state and the log.
ApplyCall(id, s, c) ==
    CASE c[1] = "enable" ->
             IF s.state = "Disabled"
             THEN [state |-> "Enabled", last |-> "Enabled",
                   log |-> s.log \o <<ResetModelCall,
                                      SetVsyncEnabledCall(id, TRUE)>>]
             ELSE s
      [] c[1] = "disable" ->
             IF s.state = "Enabled"
             THEN [state |-> IF c[2] THEN "Disallowed" ELSE "Disabled",
                   last |-> "Disabled",
                   log |-> Append(s.log, SetVsyncEnabledCall(id, FALSE))]
             ELSE [s EXCEPT !.state = IF c[2] THEN "Disallowed"
                                      ELSE "Disabled"]
      [] c[1] = "allow" ->
             IF s.state = "Disallowed"
             THEN [s EXCEPT !.state = "Disabled"]
             ELSE s

RECURSIVE Replay(_, _)
\* The calls of tr made one after the other on a new schedule.
Replay(id, tr) ==
    IF tr = <<>>
    THEN [state |-> InitialHwVsyncState, last |-> InitialLastHwVsyncState,
          log |-> <<>>]
    ELSE ApplyCall(id, Replay(id, SubSeq(tr, 1, Len(tr) - 1)), tr[Len(tr)])

\* The schedule and the collaborators as they are now.
Current ==
    [state |-> mHwVsyncState, last |-> mLastHwVsyncState, log |-> log]

\* ------------------------------------------------------------------ claims
\* Positions of a thread inside each function's critical section.
InEnable == {"en_check", "en_reset", "en_cb", "en_set", "en_last", "en_unlock"}
InDisable == {"dis_check", "dis_cb", "dis_last", "dis_set", "dis_unlock"}
InIsAllowed == {"ia_read", "ia_unlock"}
InAllow == {"al_check", "al_set", "al_unlock"}
InCritical == InEnable \cup InDisable \cup InIsAllowed \cup InAllow

\* The collaborator calls made since the lock was last taken.
SinceLock == SubSeq(log, pre.len + 1, Len(log))

\* Every call that took the lock so far is enable or disable(false).
OnlyEnableDisable ==
    \A i \in 1..Len(trace) :
        trace[i] \in {<<"enable">>, <<"disable", FALSE>>}

\* C1: over calls of enableHardwareVsync and disableHardwareVsync(false)
\* only, once every call that took the lock has returned, the number of
\* setVsyncEnabled invocations equals the number of Disabled <-> Enabled
\* changes of mHwVsyncState; and an enable that found Enabled, or a
\* disable(false) that found Disabled, has invoked the callback zero times.
C1_CallbackPerEdge ==
    /\ (mHwVsyncLock = NoThread /\ OnlyEnableDisable)
           => NumCallbacks(log) = edges
    /\ \A t \in Threads :
           /\ (pc[t] = "en_unlock" /\ pre.state = "Enabled")
                  => NumCallbacks(SinceLock) = 0
           /\ (pc[t] = "dis_unlock" /\ ~disallow[t] /\ pre.state = "Disabled")
                  => NumCallbacks(SinceLock) = 0

\* Three calls returned, the second a repeat that changed nothing: two
\* edges, two callbacks.
C1_Witness ==
    /\ mHwVsyncLock = NoThread
    /\ trace = << <<"enable">>, <<"enable">>, <<"disable", FALSE>> >>
    /\ edges = 2
    /\ NumCallbacks(log) = 2

\* C2: whenever no thread holds mHwVsyncLock, the value of the most recent
\* setVsyncEnabled call (off before the first) is true iff mHwVsyncState is
\* Enabled.
C2_HardwareConsistent ==
    mHwVsyncLock = NoThread
        => (LastEnabled(log) <=> mHwVsyncState = "Enabled")

\* The hardware was switched on and off again by a disallowing disable while
\* another thread waits for the lock.
C2_Witness ==
    /\ mHwVsyncLock = NoThread
    /\ trace = << <<"enable">>, <<"disable", TRUE>> >>
    /\ mHwVsyncState = "Disallowed"
    /\ ~LastEnabled(log)
    /\ Len(log) = 3
    /\ \E t \in Threads : pc[t] = "en_lock"

\* C3: when disableHardwareVsync(cb, true) returns isHardwareVsyncAllowed()
\* is false, and it becomes true again only by the assignment of
\* allowHardwareVsync.  (The code's disableHardwareVsync(cb, false) also
\* moves a Disallowed schedule to Disabled.)
C3_DisallowedUntilAllow ==
    /\ [](\A t \in Threads :
              (pc[t] = "dis_unlock" /\ disallow[t]) => ~IsAllowedResult)
    /\ [][(~IsAllowedResult /\ IsAllowedResult')
              => \E t \in Threads :
                     pc[t] = "al_set" /\ pc'[t] = "al_unlock"]_vars

\* In the log every setVsyncEnabled(id, true) directly follows a resetModel()
\* and every resetModel() is directly followed by it (or is the last call,
\* made by a thread that is about to switch the hardware on); there is one
\* of each per Disabled -> Enabled change of the state.
C4_LogShape ==
    /\ \A i \in 1..Len(log) :
           /\ (IsSetVsyncEnabled(log[i]) /\ log[i][3])
                  => (i > 1 /\ IsResetModel(log[i - 1]))
           /\ IsResetModel(log[i])
                  => IF i < Len(log)
                     THEN log[i + 1] = SetVsyncEnabledCall(mId, TRUE)
                     ELSE \E t \in Threads : pc[t] = "en_cb"
    /\ CountCalls(log, TRUE)
           = enters + (IF \E t \in Threads : pc[t] = "en_set" THEN 1 ELSE 0)
    /\ CountResets(log)
           = enters + (IF \E t \in Threads : pc[t] \in {"en_cb", "en_set"}
                       THEN 1 ELSE 0)

\* A step that resets the model or switches the hardware on is a step of the
\* lock holder inside an enableHardwareVsync that found Disabled, and the
\* state is Disabled before and after it.
C4_OnlyEnableResets ==
    (CountResets(log') > CountResets(log)
         \/ CountCalls(log', TRUE) > CountCalls(log, TRUE))
        => /\ mHwVsyncState = "Disabled"
           /\ mHwVsyncState' = "Disabled"
           /\ pre.state = "Disabled"
           /\ \E t \in Threads :
                  /\ mHwVsyncLock = t
                  /\ pc[t] \in {"en_reset", "en_cb"}
                  /\ pc'[t] \in {"en_cb", "en_set"}

\* The step that makes the state Enabled starts from Disabled and comes after
\* the reset and the switch-on of its critical section, in that order.
C4_EnabledAfterBoth ==
    (mHwVsyncState # "Enabled" /\ mHwVsyncState' = "Enabled")
        => /\ mHwVsyncState = "Disabled"
           /\ SinceLock = <<ResetModelCall, SetVsyncEnabledCall(mId, TRUE)>>
           /\ log' = log

\* C4: resetModel() and setVsyncEnabled(id, true) are made only by a thread
\* inside enableHardwareVsync that found the state Disabled, once each per
\* Disabled -> Enabled change, the reset first, then the switch-on, then the
\* assignment that makes the state Enabled; nothing else resets the model.
C4_ResetOnlyOnEnable ==
    /\ []C4_LogShape
    /\ [][C4_OnlyEnableResets /\ C4_EnabledAfterBoth]_vars

\* A second Disabled -> Enabled change has reset the model and switched the
\* hardware on a second time.
C4_Witness ==
    /\ enters = 2
    /\ CountResets(log) = 2
    /\ CountCalls(log, TRUE) = 2
    /\ mHwVsyncState = "Enabled"

\* A disableHardwareVsync about to return has made exactly one call,
\* setVsyncEnabled(id, false), if it found Enabled, and none otherwise.
C5_AtReturn ==
    \A t \in Threads :
        pc[t] = "dis_unlock"
            => SinceLock = IF pre.state = "Enabled"
                           THEN <<SetVsyncEnabledCall(mId, FALSE)>>
                           ELSE <<>>

\* A step that switches the hardware off is a step of the lock holder inside
\* a disableHardwareVsync that found Enabled.
C5_OnlyDisableSwitchesOff ==
    CountCalls(log', FALSE) > CountCalls(log, FALSE)
        => /\ mHwVsyncState = "Enabled"
           /\ pre.state = "Enabled"
           /\ \E t \in Threads :
                  /\ mHwVsyncLock = t
                  /\ pc[t] = "dis_cb"
                  /\ pc'[t] = "dis_last"

\* C5: setVsyncEnabled(id, false) is made exactly by a disableHardwareVsync
\* that finds the state Enabled: one that finds Disabled or Disallowed, with
\* either disallow value, returns having made no collaborator call, and no
\* other function makes that call.
C5_SwitchOffOnlyFromEnabled ==
    /\ []C5_AtReturn
    /\ [][C5_OnlyDisableSwitchesOff]_vars

\* A disallowing disable that found Disallowed returns having called nothing,
\* after an earlier one switched the hardware off.
C5_Witness ==
    /\ \E t \in Threads :
           pc[t] = "dis_unlock" /\ disallow[t] /\ pre.state = "Disallowed"
    /\ CountCalls(log, FALSE) = 1
    /\ SinceLock = <<>>

\* The calls of the scenario and what the collaborators and
\* isHardwareVsyncAllowed() have seen after the first k of them.
Scenario ==
    << <<"enable">>, <<"disable", FALSE>>, <<"disable", TRUE>>,
       <<"enable">>, <<"allow">>, <<"enable">> >>

ScenarioLog(id, k) ==
    CASE k = 0 -> <<>>
      [] k = 1 -> <<ResetModelCall, SetVsyncEnabledCall(id, TRUE)>>
      [] k \in 2..5 -> <<ResetModelCall, SetVsyncEnabledCall(id, TRUE),
                         SetVsyncEnabledCall(id, FALSE)>>
      [] OTHER -> <<ResetModelCall, SetVsyncEnabledCall(id, TRUE),
                    SetVsyncEnabledCall(id, FALSE),
                    ResetModelCall, SetVsyncEnabledCall(id, TRUE)>>

ScenarioAllowed(k) == k \notin {3, 4}

IsPrefix(s, r) == Len(s) <= Len(r) /\ s = SubSeq(r, 1, Len(s))

\* C6: on a new schedule the calls enable, disable(false), disable(true),
\* enable, allow, enable make the collaborator calls resetModel, (id,true),
\* (id,false), resetModel, (id,true) and no others: after each returned call
\* the log is the scenario's, isHardwareVsyncAllowed() returns true after
\* calls 1 and 2, false after calls 3 and 4, and the state after allow is
\* Disabled.
C6_Scenario ==
    IsPrefix(trace, Scenario)
        => /\ pc[SeqThread] \notin (InEnable \cup InDisable \cup InAllow)
                  => log = ScenarioLog(mId, Len(trace))
           /\ pc[SeqThread] = "ia_unlock"
                  => ret[SeqThread] = Returned(ScenarioAllowed(Len(trace)))
           /\ (Len(trace) = 5 /\ pc[SeqThread] = "idle")
                  => mHwVsyncState = "Disabled"

\* The whole scenario has run and isHardwareVsyncAllowed() is about to
\* return true.
C6_Witness ==
    /\ trace = Scenario
    /\ pc[SeqThread] = "ia_unlock"
    /\ ret[SeqThread] = "true"
    /\ log = ScenarioLog(mId, 6)

\* C7: an enableHardwareVsync that found the state Enabled or Disallowed
\* never reaches the body of the if, and returns with mHwVsyncState and
\* mLastHwVsyncState as found and no collaborator call made.
C7_EnableNoEffect ==
    \A t \in Threads :
        /\ pc[t] \in {"en_reset", "en_cb", "en_set", "en_last"}
               => pre.state = "Disabled"
        /\ (pc[t] = "en_unlock" /\ pre.state \in {"Enabled", "Disallowed"})
               => /\ mHwVsyncState = pre.state
                  /\ mLastHwVsyncState = pre.last
                  /\ SinceLock = <<>>

\* An enable that found Disallowed is about to return.
C7_Witness ==
    \E t \in Threads :
        /\ pc[t] = "en_unlock"
        /\ pre.state = "Disallowed"
        /\ mHwVsyncState = "Disallowed"

\* C8: a disableHardwareVsync about to return leaves the state Disallowed
\* when disallow is true and Disabled when it is false, whatever state it
\* found; and from its check to its return it holds mHwVsyncLock while no
\* other thread is inside a critical section.
C8_DisableSetsState ==
    \A t \in Threads :
        /\ pc[t] = "dis_unlock"
               => mHwVsyncState = (IF disallow[t] THEN "Disallowed"
                                   ELSE "Disabled")
        /\ pc[t] \in InDisable
               => /\ mHwVsyncLock = t
                  /\ \A u \in Threads \ {t} : pc[u] \notin InCritical

\* A disable(false) that found Disallowed is about to return with the state
\* Disabled, another thread waiting for the lock.
C8_Witness ==
    \E t \in Threads :
        /\ pc[t] = "dis_unlock"
        /\ ~disallow[t]
        /\ pre.state = "Disallowed"
        /\ mHwVsyncState = "Disabled"
        /\ \E u \in Threads \ {t} : pc[u] \in {"en_lock", "ia_lock"}

\* C9: an allowHardwareVsync about to return has moved Disallowed to
\* Disabled and left Disabled and Enabled as found; mLastHwVsyncState is as
\* found and no collaborator call was made.
C9_AllowOnlyLeavesDisallowed ==
    \A t \in Threads :
        pc[t] = "al_unlock"
            => /\ mHwVsyncState = (IF pre.state = "Disallowed" THEN "Disabled"
                                   ELSE pre.state)
               /\ mLastHwVsyncState = pre.last
               /\ SinceLock = <<>>

\* An allow that found Disallowed is about to return.
C9_Witness ==
    \E t \in Threads :
        /\ pc[t] = "al_unlock"
        /\ pre.state = "Disallowed"
        /\ mHwVsyncState = "Disabled"

\* C10: an isHardwareVsyncAllowed about to return returns true exactly when
\* the state it found under the lock is not Disallowed, with mHwVsyncState
\* and mLastHwVsyncState as found and no collaborator call made.
C10_IsAllowedReadOnly ==
    \A t \in Threads :
        pc[t] = "ia_unlock"
            => /\ ret[t] = Returned(pre.state # "Disallowed")
               /\ mHwVsyncState = pre.state
               /\ mLastHwVsyncState = pre.last
               /\ SinceLock = <<>>

\* One thread is about to return false while another returned true earlier.
C10_Witness ==
    \E t \in Threads :
        /\ pc[t] = "ia_unlock"
        /\ ret[t] = "false"
        /\ \E u \in Threads \ {t} : ret[u] = "true"

\* C11: whenever no call is inside a critical section, mLastHwVsyncState
\* is the last value other than Disallowed that mHwVsyncState held; so after
\* Enabled -> Disallowed it is Enabled.  (The code records Disabled at line
\* 150 before it disallows.)
C11_LastIsLastHeld ==
    mHwVsyncLock = NoThread => mLastHwVsyncState = held

\* Threads at the first statement of a critical section of enable, disable
\* or allow: they have taken the lock and done nothing yet.
AtEntry == {"en_check", "dis_check", "al_check"}

\* C12: the calls take effect one at a time in the order they took the
\* lock: with the lock free the state, the last state and the collaborator
\* calls are those of the calls made one after the other in that order; a
\* call that has just taken the lock finds what the calls before it left;
\* isHardwareVsyncAllowed returns what they left; and at most one thread is
\* inside a critical section.
C12_Serialized ==
    /\ mHwVsyncLock = NoThread => Current = Replay(mId, trace)
    /\ \A t \in Threads :
           /\ pc[t] \in AtEntry
                  => Current = Replay(mId, SubSeq(trace, 1, Len(trace) - 1))
           /\ pc[t] = "ia_read" => Current = Replay(mId, trace)
           /\ pc[t] = "ia_unlock"
                  => ret[t] = Returned(Replay(mId, trace).state # "Disallowed")
           /\ pc[t] \in InCritical
                  => /\ mHwVsyncLock = t
                     /\ \A u \in Threads \ {t} : pc[u] \notin InCritical

\* One thread is between the switch-on and the assignment of the state
\* while another waits to disable and disallow.
C12_Witness ==
    \E t \in Threads :
        /\ pc[t] = "en_set"
        /\ mHwVsyncState = "Disabled"
        /\ LastEnabled(log)
        /\ \E u \in Threads \ {t} : pc[u] = "dis_lock" /\ disallow[u]

RECURSIVE CallbackValues(_)
\* The values passed to setVsyncEnabled, in the order of the calls.
CallbackValues(s) ==
    IF s = <<>> THEN <<>>
    ELSE IF IsSetVsyncEnabled(Head(s))
         THEN <<Head(s)[3]>> \o CallbackValues(Tail(s))
         ELSE CallbackValues(Tail(s))

\* The statements that call a collaborator.
AtCollaboratorCall == {"en_reset", "en_cb", "dis_cb"}

\* Every setVsyncEnabled call carries mId, the values passed alternate
\* true, false, true, ..., and a thread at a collaborator call holds the
\* lock and is the only one at such a call.
C20_LogDiscipline ==
    /\ \A i \in 1..Len(log) : IsSetVsyncEnabled(log[i]) => log[i][2] = mId
    /\ \A i \in 1..Len(CallbackValues(log)) :
           CallbackValues(log)[i] = (i % 2 = 1)
    /\ \A t \in Threads :
           pc[t] \in AtCollaboratorCall
               => /\ mHwVsyncLock = t
                  /\ \A u \in Threads \ {t} : pc[u] \notin AtCollaboratorCall

\* A step that calls a collaborator is a step of the thread that holds the
\* lock before and after it, and no step changes mId.
C20_CallsUnderLock ==
    /\ mId' = mId
    /\ log' # log
           => \E t \in Threads :
                  /\ mHwVsyncLock = t
                  /\ mHwVsyncLock' = t
                  /\ pc[t] \in AtCollaboratorCall

\* C20: every setVsyncEnabled and resetModel call is made by the thread
\* holding mHwVsyncLock, so one at a time; every setVsyncEnabled call
\* carries the schedule's display id, which never changes; and the values
\* passed alternate true, false, true, ... without repeating.
C20_CollaboratorCalls ==
    /\ []C20_LogDiscipline
    /\ [][C20_CallsUnderLock]_vars

\* The hardware was switched on, off and on again, the last time by a
\* thread still inside its critical section.
C20_Witness ==
    /\ CallbackValues(log) = <<TRUE, FALSE, TRUE>>
    /\ \E t \in Threads : pc[t] = "en_set" /\ mHwVsyncLock = t

\* Where a thread is inside dump: under the lock_guard, and after it.
InDumpLocked == {"dump_state", "dump_last", "dump_unlock"}
InDumpUnlocked == {"dump_controller", "dump_dispatch", "dump_return"}

\* The claim as stated: under fair scheduling every call of
\* enableHardwareVsync, disableHardwareVsync, isHardwareVsyncAllowed,
\* allowHardwareVsync and dump that has started returns, so no thread waits
\* for mHwVsyncLock forever.
C13_EveryCallReturns ==
    \A t \in Callers : (pc[t] # "idle") ~> (pc[t] = "idle")

\* Where a thread waits for mHwVsyncLock.
AtLock == {"en_lock", "dis_lock", "ia_lock", "al_lock", "dump_lock"}

\* C13: under fair scheduling no call keeps mHwVsyncLock: every call that
\* has taken the lock returns, and while a thread waits for the lock the
\* lock becomes free again and again (or the thread takes it).  The
\* operations never deadlock; whether a given waiting thread is the one that
\* takes the free lock is left to the mutex.
C13_LockAlwaysReleased ==
    \A t \in Callers :
        /\ (pc[t] \notin AtLock \cup {"idle"}) ~> (pc[t] = "idle")
        /\ (pc[t] \in AtLock)
               ~> (mHwVsyncLock = NoThread \/ pc[t] \notin AtLock)

\* A thread waits for the mutex while another holds it inside dump.
C13_Witness ==
    \E t \in Threads :
        /\ pc[t] = "dis_lock"
        /\ \E u \in Threads \ {t} : pc[u] = "dump_last" /\ mHwVsyncLock = u

\* C15: dump holds mHwVsyncLock while it writes hwVsyncState and
\* lastHwVsyncState and no longer: it does not hold it at the Controller's
\* dump, at the Dispatch's dump or at its return, so the lock is free for
\* the other threads then; and the two values it wrote are those of the
\* moment it took the lock.
C15_DumpLockScope ==
    \A t \in Threads :
        /\ pc[t] \in InDumpLocked
               => /\ mHwVsyncLock = t
                  /\ mHwVsyncState = pre.state
                  /\ mLastHwVsyncState = pre.last
        /\ pc[t] \in InDumpUnlocked => mHwVsyncLock # t
        /\ pc[t] = "dump_unlock"
               => out[t] = << <<"hwVsyncState", pre.state>>,
                              <<"lastHwVsyncState", pre.last>> >>
        /\ pc[t] \in InDumpUnlocked
               => \E s \in HwVsyncStates :
                      SubSeq(out[t], 1, 2)
                          = << <<"hwVsyncState", s>>,
                               <<"lastHwVsyncState",
                                 IF s = "Enabled" THEN "Enabled"
                                                  ELSE "Disabled">> >>

\* A thread is inside the Dispatch's dump while another thread, which took
\* the lock after it, is inside enableHardwareVsync.
C15_Witness ==
    \E t \in Threads :
        /\ pc[t] = "dump_dispatch"
        /\ out[t][1] = <<"hwVsyncState", "Disabled">>
        /\ \E u \in Threads \ {t} : pc[u] = "en_set" /\ mHwVsyncLock = u

\* query holds two calls, the second made later and with a later time point.
IncreasingCalls ==
    /\ Len(query) = 2
    /\ Ns(query[2].t) > Ns(query[1].t)

\* The claim as stated: of two vsyncDeadlineAfter calls with increasing t the
\* second result is not smaller than the first, whatever ran in between.
C14_Monotonic ==
    IncreasingCalls => Ns(query[2].result) >= Ns(query[1].result)

\* C14: of two vsyncDeadlineAfter calls with increasing t made on the same
\* model of the Tracker, the second result is not smaller than the first,
\* and each result is strictly after its t.
C14_MonotonicOnOneModel ==
    /\ IncreasingCalls /\ query[1].model = query[2].model
           => Ns(query[2].result) >= Ns(query[1].result)
    /\ \A i \in 1..Len(query) : Ns(query[i].result) > Ns(query[i].t)

\* Two calls with increasing t on a learned model, with a different result,
\* made after an enableHardwareVsync that reset the Tracker.
C14_Witness ==
    /\ IncreasingCalls
    /\ query[1].model = query[2].model
    /\ query[1].model # ResetModel
    /\ Ns(query[2].result) > Ns(query[1].result)
    /\ CountResets(log) > 0

\* Once its initialiser has run, mController is the Controller the
\* constructor call made or was given, for the schedule's lifetime.
ControllerAsConstructed ==
    life # "init_controller"
        => mController = IF ctor.kind = "features"
                         THEN CreatedController(mId, ctor.features)
                         ELSE InjectedController

\* The constructor call asks for a tracer.
WantsTracer ==
    ctor.kind = "features" /\ "kTracePredictedVsync" \in ctor.features

\* The tracer's constructor has run to its end.
TracerConstructed == life \in {"tracer_made", "alive"}

\* One invocation of the callback: before the flip, between the flip and the
\* schedule request, and after its return.
C16_PerInvocation ==
    /\ dpc = "cb_flip" => flips = 0 /\ requests = <<>>
    /\ dpc = "cb_schedule" => flips = 1 /\ requests = <<>>
    /\ dpc = "idle" /\ invoked => flips = 1 /\ requests = <<ZeroOffsets>>
    /\ TracerDestroyed => dpc = "idle" /\ ~armed /\ registered = 0

\* The flip negates mParity, and no invocation starts once the tracer's
\* destruction is complete.
C16_Step ==
    /\ dpc = "cb_flip" /\ dpc' = "cb_schedule" => mParity' = ~mParity
    /\ TracerDestroyed => dpc' = "idle"

\* While the schedule lives with a tracer, the callback is invoked again.
C16_Forever ==
    [](mTracer /\ life = "alive" => <>(dpc = "cb_flip" \/ life # "alive"))

\* C16: each invocation of the tracer's callback flips mParity exactly once
\* and then issues exactly one schedule request with offsets {0, 0, 0}; while
\* the tracer lives and the Dispatch fires every armed request the callback
\* is invoked again and again; once the tracer's destruction is complete no
\* invocation occurs.
C16_TracerLoop ==
    /\ []C16_PerInvocation
    /\ [][C16_Step]_vars
    /\ C16_Forever

\* The callback has returned from its second (or a later even) invocation
\* and is armed again.
C16_Witness ==
    /\ invoked
    /\ dpc = "idle"
    /\ armed
    /\ mParity = FALSE
    /\ mTracer
    /\ life = "alive"

\* C17: a constructed schedule has a tracer exactly when it was built by the
\* (id, features) constructor with kTracePredictedVsync set; the constructor
\* that takes the collaborators registers and schedules nothing.  A created
\* tracer has registered one callback and, before any invocation, has issued
\* exactly one schedule request, with offsets {0, 0, 0}.
C17_TracerCreation ==
    /\ life = "alive" => (mTracer <=> WantsTracer)
    /\ ~WantsTracer
           => ~mTracer /\ registered = 0 /\ ~armed /\ ~invoked
                       /\ requests = <<>>
    /\ registered <= 1
    /\ TracerConstructed /\ WantsTracer => registered = 1
    /\ TracerConstructed /\ WantsTracer /\ ~invoked
           => requests = <<ZeroOffsets>>
    /\ life \in {"init_controller", "ctor", "tracer_register",
                  "tracer_schedule"}
           => ~invoked /\ ~armed /\ requests = <<>>

\* A schedule with a tracer is constructed and the callback was not invoked
\* yet.
C17_Witness ==
    /\ life = "alive"
    /\ mTracer
    /\ ~invoked
    /\ armed
    /\ requests = <<ZeroOffsets>>

\* C18: the destructor has destroyed the tracer, whose registration is then
\* released, before it releases the Controller, the Dispatch and the Tracker;
\* and while the callback runs on the Dispatch's thread neither the Dispatch
\* nor the Tracker is released.
C18_TracerFirst ==
    /\ ControllerReleased \/ DispatchReleased \/ TrackerReleased
           => ~mTracer /\ registered = 0 /\ ~armed
    /\ dpc # "idle" => ~DispatchReleased /\ ~TrackerReleased
                           /\ ~ControllerReleased

\* The destructor waits for the callback, which is running.
C18_Witness ==
    /\ life = "dtor_tracer_wait"
    /\ dpc = "cb_schedule"
    /\ registered = 0

\* A step of the callback leaves the hardware-vsync state and its lock
\* alone, and a step of a hardware-vsync operation leaves the tracer alone.
C19_Step ==
    /\ dpc' # dpc
           => UNCHANGED <<mHwVsyncState, mLastHwVsyncState, mHwVsyncLock>>
    /\ pc' # pc => UNCHANGED <<mParity, armed, registered, requests, flips>>

\* In every hardware-vsync state a living tracer whose callback is not
\* running has a request armed.
C19_Armed ==
    mTracer /\ life = "alive" /\ dpc = "idle" => armed

\* C19: the callback changes neither mHwVsyncState nor mLastHwVsyncState and
\* does not take mHwVsyncLock; enableHardwareVsync, disableHardwareVsync and
\* allowHardwareVsync change neither mParity nor the tracer's schedule
\* requests; so the tracer is armed again after every invocation in every
\* hardware-vsync state.
C19_Independent ==
    /\ [][C19_Step]_vars
    /\ []C19_Armed

\* The tracer is armed again after an invocation while hardware vsync is
\* disallowed.
C19_Witness ==
    /\ mTracer
    /\ invoked
    /\ armed
    /\ dpc = "idle"
    /\ mHwVsyncState = "Disallowed"

TypeOK ==
    /\ mId \in DisplayIds
    /\ mHwVsyncState \in HwVsyncStates
    /\ mLastHwVsyncState \in HwVsyncStates
    /\ mHwVsyncLock \in Threads \cup {NoThread}
    /\ \A t \in Threads : ret[t] \in {"none", "true", "false"}
====
